---- MODULE Spec2Model ----
(***************************************************************************)
(* Live caption orchestrator of the backbone repository: the LiveKit agent *)
(* (src/src/livekit/agent.js), the Deepgram session wrapper                *)
(* (src/src/stt/deepgram.js), the translation service                      *)
(* (src/src/config/env.js, lines 90-257), the data channel                 *)
(* (src/src/livekit/dataChannel.js) and the store modules.                 *)
(*                                                                         *)
(* JavaScript runs one callback at a time: every action below is the code  *)
(* that runs from one resumption (an event, or an awaited promise          *)
(* settling) up to the next await.                                         *)
(***************************************************************************)
EXTENDS Integers, Sequences, FiniteSets, TLC

\* ------------------------------------------------------------------ bounds
MaxEvents == 2      \* transcript events the recognizer produces
MaxCalls == 2       \* startTranscription / stopTranscription / cleanup calls
MaxRooms == 2       \* Room objects created by startTranscription
MaxConns == 2       \* Deepgram connections created by handleAudioTrack
MaxCacheEntries == 1    \* the entry count a deployment would cap the cache at
MaxRequests == 2    \* HTTP requests the server receives
MaxLogs == 2        \* calls of the logger's methods

Meetings == {"m1"}
Speakers == {"A", "B"}
Texts == {"hello", "bye"}
Variants == {"1", "2"}          \* the provider's answers for one request

\* JS null / undefined / '' : all falsy, and the code only tests truthiness
Undefined == ""
\* saved?.id when the transcript was not saved
NoId == 0

\* ---------------------------------------------------------------- variables
VARIABLES
    \* config.features (env.js 69-74), fixed when the process starts
    transcription, translation, cacheTranslations,
    \* agent.js: activeSessions, the Room / session objects, in-flight calls
    activeSessions, rooms, conns, calls,
    \* the recognizer's events and the handler invocation of each
    events, tasks,
    \* translator: the node-cache instance
    translationCache,
    \* the store: meeting_participants + user_settings, meeting_transcripts,
    \* meeting_translations
    participantsDb, userSettings, dbTranscripts, dbTranslations,
    \* observations: publishData invocations, translateText calls, cache and
    \* provider accesses, first translation of a key in its freshness window
    pubLog, trLog, touched, firstText,
    \* observation: the publishData calls (indexes of pubLog) that rejected
    failedSends,
    \* observation: the HTTP requests received and the layer that answered each
    httpLog,
    \* process.env.LOG_LEVEL (env.js 77), fixed when the process starts
    LOG_LEVEL,
    \* observation: the calls of the logger's methods and whether each wrote
    \* to the console
    logged

cfgVars == <<transcription, translation, cacheTranslations>>
logVars == <<LOG_LEVEL, logged>>
agentVars == <<activeSessions, rooms, conns, calls>>
storeVars == <<participantsDb, userSettings, dbTranscripts, dbTranslations>>
vars == <<transcription, translation, cacheTranslations, activeSessions, rooms,
          conns, calls, events, tasks, translationCache, participantsDb,
          userSettings, dbTranscripts, dbTranslations, pubLog, trLog, touched,
          firstText, failedSends, httpLog, LOG_LEVEL, logged>>

\* ------------------------------------------------------- translation service

\* the string the provider's variant v answers for (text, targetLang)
ProviderText(text, targetLang, v) == text \o "@" \o targetLang \o v

\* env.js 162: const cacheKey = `${text}_${sourceLang}_${targetLang}`
cacheKey(text, sourceLang, targetLang) ==
    text \o "_" \o sourceLang \o "_" \o targetLang

\* translationCache.get(key): the stored value, undefined when absent/expired
CacheGet(cache, key) == IF key \in DOMAIN cache THEN cache[key] ELSE Undefined

\* translationCache.set(key, value): node-cache overwrites an existing entry
CacheSet(cache, key, value) ==
    [k \in DOMAIN cache \cup {key} |-> IF k = key THEN value ELSE cache[k]]

\* getTranslation (transcripts.js 97-119): the row's translated_text, or null
getTranslation(transcriptId, targetLanguage) ==
    LET rows == {r \in dbTranslations : r.transcript_id = transcriptId
                                        /\ r.target_language = targetLanguage}
    IN  IF rows = {} THEN Undefined ELSE (CHOOSE r \in rows : TRUE).translated_text

\* translateText after the source == target test, up to its first await
\* (env.js 161-193): the cache key, the in-memory lookup, and which call is
\* issued on a miss.
\*   ret   : the value returned without awaiting (await = "none")
\*   await : "dbget" (getTranslation) or "provider"
\*   ops   : the cache accesses made
translateTextLookup(cache, text, sourceLang, targetLang, transcriptId) ==
    LET key == cacheKey(text, sourceLang, targetLang)
        cached == CacheGet(cache, key)
    IN  IF cacheTranslations
        THEN IF cached # Undefined
             THEN [ret |-> cached, await |-> "none", how |-> "mem", ops |-> {"memget"}]
             ELSE IF transcriptId # NoId
                  THEN [ret |-> Undefined, await |-> "dbget", how |-> "none",
                        ops |-> {"memget", "dbget"}]
                  ELSE [ret |-> Undefined, await |-> "provider", how |-> "none",
                        ops |-> {"memget", "provider"}]
        ELSE [ret |-> Undefined, await |-> "provider", how |-> "none",
              ops |-> {"provider"}]

\* a translateText without its first test (env.js 157-159)
Mut_translateTextBegin(cache, text, sourceLang, targetLang, transcriptId) ==
    translateTextLookup(cache, text, sourceLang, targetLang, transcriptId)

\* translateText from its entry (env.js 155-193)
translateTextBegin(cache, text, sourceLang, targetLang, transcriptId) ==
    IF sourceLang = targetLang
    THEN [ret |-> text, await |-> "none", how |-> "same", ops |-> {}]
    ELSE translateTextLookup(cache, text, sourceLang, targetLang, transcriptId)

\* getMeetingLanguages (logger.js 116-154): every participant of the meeting
\* with the preferred language, 'en' when no setting is stored
getMeetingLanguages ==
    [i \in 1..Len(participantsDb) |->
        [userId |-> participantsDb[i],
         language |-> IF userSettings[participantsDb[i]] # Undefined
                      THEN userSettings[participantsDb[i]] ELSE "en"]]

\* ------------------------------------------------------------ data channel

\* the session the closure of a connection's callbacks holds (agent.js 154-160)
\* the session of room r is the one activeSessions holds for its meeting
Registered(r) == activeSessions[rooms[r].meetingId] = r

\* broadcastCaption (dataChannel.js 59-99): one publishData to all; the caption
\* the agent passes has no translatedText / targetLanguage, so line 69-70 fall
\* back to the original text and language
broadcastCaption(e, ev, isFinal) ==
    [ev |-> e, to |-> "*", translatedText |-> ev.text,
     targetLanguage |-> ev.language, isFinal |-> isFinal,
     registered |-> Registered(ev.room),
     closed |-> conns[ev.conn].finished > 0]

\* a sendTranslatedCaptions that spreads the caption without the listener's
\* translatedText
Mut_sendCaptionToParticipant(e, c) ==
    [ev |-> e, to |-> c.participantIdentity, translatedText |-> events[e].text,
     targetLanguage |-> c.language, isFinal |-> TRUE,
     registered |-> Registered(events[e].room),
     closed |-> conns[events[e].conn].finished > 0]

\* sendCaptionToParticipant (dataChannel.js 13-54) as called by
\* sendTranslatedCaptions (dataChannel.js 107-115): translatedText ||
\* caption.originalText, sent to one identity
sendCaptionToParticipant(e, c) ==
    [ev |-> e, to |-> c.participantIdentity,
     translatedText |-> IF c.translatedText # Undefined THEN c.translatedText
                        ELSE events[e].text,
     targetLanguage |-> c.language, isFinal |-> TRUE,
     registered |-> Registered(events[e].room),
     closed |-> conns[events[e].conn].finished > 0]

\* a sendTranslatedCaptions that gives up before the first send
Mut_sendTranslatedCaptions(e, captions) == <<>>

\* sendTranslatedCaptions (dataChannel.js 105-133): participantLanguages.map
\* calls sendCaptionToParticipant for every entry, in order; each call reaches
\* publishData before its first await
sendTranslatedCaptions(e, captions) ==
    [i \in 1..Len(captions) |-> sendCaptionToParticipant(e, captions[i])]

\* ------------------------------------------------- handleFinalTranscript

\* the record of one translateText call: the listener, the key, the first
\* translation of the key known when the call began, what it returned and how
TrRec(e, i, key, seen, ret, how, stored) ==
    [ev |-> e, i |-> i, key |-> key, seen |-> seen, ret |-> ret, how |-> how,
     stored |-> stored]

FirstGet(first, key) == IF key \in DOMAIN first THEN first[key] ELSE Undefined

FirstSet(first, key, value) ==
    IF key \in DOMAIN first THEN first
    ELSE [k \in DOMAIN first \cup {key} |-> IF k = key THEN value ELSE first[k]]

TargetOf(t) == t.langs[t.i].language

KeyOf(e, t) == cacheKey(events[e].text, events[e].language, TargetOf(t))

\* translateText returned ret for listener t.i: push the caption
\* (agent.js 245-249) and step to the next listener
Pushed(t, ret) ==
    [t EXCEPT !.out = Append(@, [participantIdentity |-> t.langs[t.i].userId,
                                 language |-> t.langs[t.i].language,
                                 translatedText |-> ret]),
              !.i = @ + 1, !.cur = Undefined, !.seen = Undefined]

\* the for-loop of handleFinalTranscript (agent.js 236-250) from listener
\* st.task.i on, up to the next await, or to the end of the loop (pc "send")
RECURSIVE translateLoop(_, _)
translateLoop(e, st) ==
    LET t == st.task
    IN  IF t.i > Len(t.langs)
        THEN [st EXCEPT !.task.pc = "send"]
        ELSE LET b == translateTextBegin(st.cache, events[e].text,
                                         events[e].language, TargetOf(t), t.saved)
                 seen == FirstGet(st.first, KeyOf(e, t))
                 ops == st.ops \cup {<<e, t.i, o>> : o \in b.ops}
             IN  IF b.await = "none"
                 THEN translateLoop(e,
                        [st EXCEPT !.task = Pushed(t, b.ret),
                                   !.tr = @ \cup {TrRec(e, t.i, KeyOf(e, t), seen,
                                                        b.ret, b.how, "none")},
                                   !.ops = ops])
                 ELSE [st EXCEPT !.task = [t EXCEPT !.pc = b.await, !.seen = seen],
                                 !.ops = ops]

\* the state a resumption of handleFinalTranscript works on
Resumed(e) ==
    [task |-> tasks[e], cache |-> translationCache, first |-> firstText,
     tr |-> trLog, ops |-> touched]

\* run the loop from st, and when it ends send the captions (agent.js 252-261)
Continue(e, st) ==
    LET n == translateLoop(e, st)
    IN  /\ tasks' = [tasks EXCEPT ![e] = IF n.task.pc = "send"
                                         THEN [n.task EXCEPT !.pc = "done"]
                                         ELSE n.task]
        /\ pubLog' = IF n.task.pc = "send"
                     THEN pubLog \o sendTranslatedCaptions(e, n.task.out)
                     ELSE pubLog
        /\ translationCache' = n.cache
        /\ firstText' = n.first
        /\ trLog' = n.tr
        /\ touched' = n.ops

\* ---------------------------------------------------------------- agent.js

\* a Room created by startTranscription (agent.js 33) and, once `session` is
\* TRUE, the session object built around it (agent.js 44-49): ts is its
\* transcriptionSessions map, 0 where the speaker has no entry; createError
\* observes that a createTranscriptionSession call for the room has thrown
NewRoom(m) ==
    [meetingId |-> m, state |-> "connecting", session |-> FALSE,
     ts |-> [s \in Speakers |-> 0], createError |-> FALSE]

\* a call of startTranscription / stopTranscription, or the cleanupSession a
\* Disconnected event starts; room is the session the call created or found
\* at its entry, target the session whose room cleanupSession disconnects
Call(kind, m, pc, r, result) ==
    [kind |-> kind, meetingId |-> m, pc |-> pc, room |-> r, target |-> 0,
     result |-> result]

\* the connection createTranscriptionSession returns (deepgram.js 49-130);
\* finished counts its finish() calls. createTranscriptionSession awaits
\* nothing, so the `await` of handleAudioTrack (agent.js 151) resumes in the
\* microtask checkpoint of the callback that called handleAudioTrack: pending
\* says which ("start": the continuation of startTranscription, "event": a
\* room event handler), "" once the map entry is written. sent observes the
\* audio frames handed to connection.send: "registered" / "removed" says
\* whether the meeting's session was in activeSessions at that moment. socket
\* is the state of the live connection: "open" until the recognizer's Close
\* event (deepgram.js 110-112)
NewConn(r, s, origin) ==
    [room |-> r, speaker |-> s, pending |-> origin, finished |-> 0, sent |-> {},
     socket |-> "open"]

\* no handleAudioTrack continuation is queued: the event loop may run the next
\* I/O callback or request
Idle == \A k \in 1..Len(conns) : conns[k].pending = ""

\* one more event may be emitted in the call stack of the event that queued
\* the pending continuations
SameStack == \A k \in 1..Len(conns) : conns[k].pending # "start"

\* startTranscription without the activeSessions.has test (agent.js 26-29)
Mut_startGuard(m) == IF ~transcription THEN "disabled" ELSE "go"

\* the two guards of startTranscription (agent.js 21-29)
startGuard(m) ==
    IF ~transcription THEN "disabled"
    ELSE IF activeSessions[m] # 0 THEN "already"
    ELSE "go"

\* startTranscription up to `await room.connect` (agent.js 20-36)
startTranscription(m) ==
    /\ Idle
    /\ Len(calls) < MaxCalls
    /\ IF startGuard(m) = "go"
       THEN /\ Len(rooms) < MaxRooms
            /\ rooms' = Append(rooms, NewRoom(m))
            /\ calls' = Append(calls, Call("start", m, "connect", Len(rooms) + 1, ""))
       ELSE /\ calls' = Append(calls, Call("start", m, "done", 0, startGuard(m)))
            /\ UNCHANGED rooms
    /\ UNCHANGED <<activeSessions, conns>>
    /\ UNCHANGED <<cfgVars, logVars, failedSends, httpLog, storeVars, events, tasks, translationCache, pubLog,
                   trLog, touched, firstText>>

\* a catch that stores the session of the room that failed to connect
Mut_startCatch(m, r) == [activeSessions EXCEPT ![m] = r]

\* the catch of startTranscription (agent.js 94-97): it logs and returns,
\* the session map is not written
startCatch(m, r) == activeSessions

\* room.connect settles (agent.js 36-41): on success the start notice is sent,
\* on failure the catch returns success:false (agent.js 94-97)
connectResolved(c) ==
    /\ Idle
    /\ c \in 1..Len(calls)
    /\ calls[c].kind = "start" /\ calls[c].pc = "connect"
    /\ \E ok \in BOOLEAN :
         IF ok
         THEN /\ rooms' = [rooms EXCEPT ![calls[c].room].state = "connected"]
              /\ calls' = [calls EXCEPT ![c].pc = "notice"]
              /\ UNCHANGED activeSessions
         ELSE /\ rooms' = [rooms EXCEPT ![calls[c].room].state = "disconnected"]
              /\ calls' = [calls EXCEPT ![c].pc = "done", ![c].result = "error"]
              /\ activeSessions' = startCatch(calls[c].meetingId, calls[c].room)
    /\ UNCHANGED conns
    /\ UNCHANGED <<cfgVars, logVars, failedSends, httpLog, storeVars, events, tasks, translationCache, pubLog,
                   trLog, touched, firstText>>

\* handleAudioTrack up to `await createTranscriptionSession` (agent.js 146-161):
\* the connection exists, the map entry is not written yet
RECURSIVE handleAudioTracks(_, _, _, _)
handleAudioTracks(cs, r, P, origin) ==
    IF P = {} THEN cs
    ELSE LET s == CHOOSE x \in P : TRUE
         IN  handleAudioTracks(Append(cs, NewConn(r, s, origin)), r, P \ {s},
                               origin)

\* sendSystemMessage settled (it never throws, dataChannel.js 168-171): the
\* session is stored, the participants already in the room are subscribed and
\* the room handlers registered (agent.js 43-92)
startNoticeResolved(c) ==
    /\ Idle
    /\ c \in 1..Len(calls)
    /\ calls[c].kind = "start" /\ calls[c].pc = "notice"
    /\ LET r == calls[c].room
       IN  /\ activeSessions' = [activeSessions EXCEPT ![calls[c].meetingId] = r]
           /\ rooms' = [rooms EXCEPT ![r].session = TRUE]
           /\ \E P \in SUBSET Speakers :
                /\ Len(conns) + Cardinality(P) <= MaxConns
                /\ conns' = handleAudioTracks(conns, r, P, "start")
    /\ calls' = [calls EXCEPT ![c].pc = "done", ![c].result = "ok"]
    /\ UNCHANGED <<cfgVars, logVars, failedSends, httpLog, storeVars, events, tasks, translationCache, pubLog,
                   trLog, touched, firstText>>

\* room events reach the handlers of a session whose room is connected
Listening(r) ==
    /\ SameStack
    /\ r \in 1..Len(rooms)
    /\ rooms[r].session
    /\ rooms[r].state = "connected"

\* RoomEvent.TrackSubscribed for an audio track (agent.js 71-76)
trackSubscribed(r, s) ==
    /\ Listening(r)
    /\ Len(conns) < MaxConns
    /\ conns' = handleAudioTracks(conns, r, {s}, "event")
    /\ UNCHANGED <<activeSessions, rooms, calls>>
    /\ UNCHANGED <<cfgVars, logVars, failedSends, httpLog, storeVars, events, tasks, translationCache, pubLog,
                   trLog, touched, firstText>>

\* a handleAudioTrack whose catch gives the meeting's session up
Mut_handleAudioTrackCatch(m) == [activeSessions EXCEPT ![m] = 0]

\* the catch of handleAudioTrack (agent.js 174-176): the error is logged;
\* activeSessions afterwards
handleAudioTrackCatch(m) == activeSessions

\* RoomEvent.TrackSubscribed for an audio track whose
\* createTranscriptionSession throws (deepgram.js 40-45, 132-135): no
\* connection is returned, nothing is stored, the catch of handleAudioTrack
\* runs (agent.js 146-151, 174-176)
trackSubscribedFailed(r, s) ==
    /\ Listening(r)
    /\ ~rooms[r].createError
    /\ rooms' = [rooms EXCEPT ![r].createError = TRUE]
    /\ activeSessions' = handleAudioTrackCatch(rooms[r].meetingId)
    /\ UNCHANGED <<conns, calls>>
    /\ UNCHANGED <<cfgVars, logVars, failedSends, httpLog, storeVars, events, tasks,
                   translationCache, pubLog, trLog, touched, firstText>>

\* RoomEvent.ParticipantConnected (agent.js 59-62, 128-134): handleAudioTrack
\* for every audio publication of the participant that has a track
participantConnected(r, s) ==
    /\ Listening(r)
    /\ \E tracks \in {{}, {s}} :
         /\ Len(conns) + Cardinality(tracks) <= MaxConns
         /\ conns' = handleAudioTracks(conns, r, tracks, "event")
    /\ UNCHANGED <<activeSessions, rooms, calls>>
    /\ UNCHANGED <<cfgVars, logVars, failedSends, httpLog, storeVars, events, tasks, translationCache, pubLog,
                   trLog, touched, firstText>>

\* createTranscriptionSession settled (agent.js 163-172): the connection is
\* stored in the session's map, replacing the speaker's entry
handleAudioTrackResolved(k) ==
    /\ k \in 1..Len(conns)
    /\ conns[k].pending # ""
    /\ conns' = [conns EXCEPT ![k].pending = ""]
    /\ rooms' = [rooms EXCEPT ![conns[k].room].ts[conns[k].speaker] = k]
    /\ UNCHANGED <<activeSessions, calls>>
    /\ UNCHANGED <<cfgVars, logVars, failedSends, httpLog, storeVars, events, tasks, translationCache, pubLog,
                   trLog, touched, firstText>>

\* a 'data' event of the audio track handleAudioTrack listens to (agent.js
\* 167-170): the chunk goes to deepgramSession.send, which calls
\* connection.send and logs what it throws (deepgram.js 115-121). The listener
\* is registered once the connection is stored and is never removed
audioData(k) ==
    /\ Idle
    /\ k \in 1..Len(conns)
    /\ conns' = [conns EXCEPT ![k].sent =
                     @ \cup {IF Registered(conns[k].room) THEN "registered"
                                                            ELSE "removed"}]
    /\ UNCHANGED <<activeSessions, rooms, calls>>
    /\ UNCHANGED <<cfgVars, logVars, failedSends, httpLog, storeVars, events, tasks, translationCache, pubLog,
                   trLog, touched, firstText>>

\* the Close handler of a connection (deepgram.js 110-112), and the Error
\* handler before it (deepgram.js 102-107): a line is logged. The connection
\* afterwards: its socket is closed, everything else as it was
onClose(c) == [c EXCEPT !.socket = "closed"]

\* LiveTranscriptionEvents.Close on connection k: the recognizer or the
\* network ended the stream, whether or not close() had asked for it
connectionClosed(k) ==
    /\ Idle
    /\ k \in 1..Len(conns)
    /\ conns[k].socket = "open"
    /\ conns' = [conns EXCEPT ![k] = onClose(conns[k])]
    /\ UNCHANGED <<activeSessions, rooms, calls>>
    /\ UNCHANGED <<cfgVars, logVars, failedSends, httpLog, storeVars, events, tasks, translationCache, pubLog,
                   trLog, touched, firstText>>

\* the sendSystemMessage calls made so far: the start notice of a
\* startTranscription that connected (agent.js 41) and the stop notice of a
\* stopTranscription that found a session (agent.js 112); the agent has no
\* other call of sendSystemMessage
systemMessages ==
    {[room |-> calls[c].room, message |-> "Live transcription started"] :
        c \in {x \in 1..Len(calls) :
                  /\ calls[x].kind = "start"
                  /\ \/ calls[x].pc = "notice"
                     \/ calls[x].pc = "done" /\ calls[x].result = "ok"}}
    \cup
    {[room |-> calls[c].room, message |-> "Live transcription stopped"] :
        c \in {x \in 1..Len(calls) :
                  calls[x].kind = "stop" /\ calls[x].room # 0}}

\* a stopTranscriptionForParticipant that closes the connection and keeps the
\* map entry
Mut_stopTranscriptionForParticipant(r, s) ==
    LET k == rooms[r].ts[s]
    IN  IF k # 0
        THEN /\ conns' = [conns EXCEPT ![k].finished = @ + 1]
             /\ UNCHANGED rooms
        ELSE UNCHANGED <<conns, rooms>>

\* stopTranscriptionForParticipant (agent.js 271-279)
stopTranscriptionForParticipant(r, s) ==
    LET k == rooms[r].ts[s]
    IN  IF k # 0
        THEN /\ conns' = [conns EXCEPT ![k].finished = @ + 1]
             /\ rooms' = [rooms EXCEPT ![r].ts[s] = 0]
        ELSE UNCHANGED <<conns, rooms>>

\* RoomEvent.TrackUnsubscribed for an audio track (agent.js 79-84)
trackUnsubscribed(r, s) ==
    /\ Listening(r)
    /\ stopTranscriptionForParticipant(r, s)
    /\ UNCHANGED <<activeSessions, calls>>
    /\ UNCHANGED <<cfgVars, logVars, failedSends, httpLog, storeVars, events, tasks, translationCache, pubLog,
                   trLog, touched, firstText>>

\* RoomEvent.ParticipantDisconnected (agent.js 65-68, 139-141)
participantDisconnected(r, s) ==
    /\ Listening(r)
    /\ stopTranscriptionForParticipant(r, s)
    /\ UNCHANGED <<activeSessions, calls>>
    /\ UNCHANGED <<cfgVars, logVars, failedSends, httpLog, storeVars, events, tasks, translationCache, pubLog,
                   trLog, touched, firstText>>

\* the loop of cleanupSession (agent.js 289-292): close() on every entry of
\* the session's transcriptionSessions map; the entries stay in the map
closeAll(cs, r) ==
    [k \in 1..Len(cs) |->
        IF \E s \in Speakers : rooms[r].ts[s] = k
        THEN [cs[k] EXCEPT !.finished = @ + 1]
        ELSE cs[k]]

\* stopTranscription up to `await sendSystemMessage` (agent.js 103-112)
stopTranscription(m) ==
    /\ Idle
    /\ Len(calls) < MaxCalls
    /\ calls' = Append(calls,
                  IF activeSessions[m] = 0
                  THEN Call("stop", m, "done", 0, "notactive")
                  ELSE Call("stop", m, "notice", activeSessions[m], ""))
    /\ UNCHANGED <<activeSessions, rooms, conns>>
    /\ UNCHANGED <<cfgVars, logVars, failedSends, httpLog, storeVars, events, tasks, translationCache, pubLog,
                   trLog, touched, firstText>>

\* the stop notice settled: cleanupSession up to `await room.disconnect()`
\* (agent.js 115, 284-297); with no session left it returns at once and
\* stopTranscription returns success (agent.js 117)
stopNoticeResolved(c) ==
    /\ Idle
    /\ c \in 1..Len(calls)
    /\ calls[c].kind = "stop" /\ calls[c].pc = "notice"
    /\ LET r == activeSessions[calls[c].meetingId]
       IN  IF r = 0
           THEN /\ calls' = [calls EXCEPT ![c].pc = "done", ![c].result = "ok"]
                /\ UNCHANGED conns
           ELSE /\ calls' = [calls EXCEPT ![c].pc = "disconnect", ![c].target = r]
                /\ conns' = closeAll(conns, r)
    /\ UNCHANGED <<activeSessions, rooms>>
    /\ UNCHANGED <<cfgVars, logVars, failedSends, httpLog, storeVars, events, tasks, translationCache, pubLog,
                   trLog, touched, firstText>>

\* room.disconnect() settled (agent.js 296-300): on success the meeting's
\* entry is deleted; a rejection leaves cleanupSession before the delete and
\* is caught by stopTranscription (agent.js 119-122), by nobody when the
\* Disconnected handler made the call (agent.js 87-90)
disconnectResolved(c) ==
    /\ Idle
    /\ c \in 1..Len(calls)
    /\ calls[c].kind \in {"stop", "cleanup"} /\ calls[c].pc = "disconnect"
    /\ \E ok \in BOOLEAN :
         IF ok
         THEN /\ rooms' = [rooms EXCEPT ![calls[c].target].state = "disconnected"]
              /\ activeSessions' = [activeSessions EXCEPT ![calls[c].meetingId] = 0]
              /\ calls' = [calls EXCEPT ![c].pc = "done", ![c].result = "ok"]
         ELSE /\ calls' = [calls EXCEPT ![c].pc = "done",
                                        ![c].result = IF calls[c].kind = "stop"
                                                      THEN "error" ELSE "unhandled"]
              /\ UNCHANGED <<rooms, activeSessions>>
    /\ UNCHANGED conns
    /\ UNCHANGED <<cfgVars, logVars, failedSends, httpLog, storeVars, events, tasks, translationCache, pubLog,
                   trLog, touched, firstText>>

\* RoomEvent.Disconnected (agent.js 87-90): cleanupSession(meetingId) up to
\* `await room.disconnect()`, on whatever session the meeting id maps to. A
\* room emits the event once: the cleanups that rooms other than the
\* registered one start are bounded by the rooms, the others by MaxCalls,
\* but for the event that arrives while stopTranscription's cleanup of the
\* room is awaiting room.disconnect()
disconnected(r) ==
    /\ Listening(r)
    /\ LET m == rooms[r].meetingId
           r2 == activeSessions[m]
       IN  IF r2 = 0
           THEN /\ rooms' = [rooms EXCEPT ![r].state = "disconnected"]
                /\ UNCHANGED <<conns, calls>>
           ELSE /\ \/ Len(calls) < MaxCalls
                   \/ r2 # r
                   \/ \E c \in 1..Len(calls) :
                         /\ calls[c].kind = "stop"
                         /\ calls[c].pc = "disconnect"
                         /\ calls[c].target = r
                /\ rooms' = [rooms EXCEPT ![r].state = "disconnected"]
                /\ conns' = closeAll(conns, r2)
                /\ calls' = Append(calls, [Call("cleanup", m, "disconnect", r2, "")
                                             EXCEPT !.target = r2])
    /\ UNCHANGED activeSessions
    /\ UNCHANGED <<cfgVars, logVars, failedSends, httpLog, storeVars, events, tasks, translationCache, pubLog,
                   trLog, touched, firstText>>

\* ------------------------------------------------ the transcript pipeline

\* a Transcript handler that takes every result for a final one
Mut_dispatch(isFinal) == "final"

\* which callback the Transcript handler calls (deepgram.js 72, 82-98)
dispatch(isFinal) == IF isFinal THEN "final" ELSE "interim"

\* one invocation of handleInterimTranscript / handleFinalTranscript
NewTask(pc, registered, closed) ==
    [pc |-> pc, saved |-> NoId, langs |-> <<>>, i |-> 1, out |-> <<>>,
     cur |-> Undefined, seen |-> Undefined, registered0 |-> registered,
     closed0 |-> closed]

\* LiveTranscriptionEvents.Transcript on connection k with a non-empty
\* transcript (deepgram.js 68-99). The callback is called and not awaited:
\* handleInterimTranscript runs to publishData (agent.js 182-193,
\* dataChannel.js 59-83), handleFinalTranscript to the insert of saveTranscript
\* (agent.js 202-210, deepgram.js 141-151, transcripts.js 15-29)
transcript(k, text, isFinal) ==
    /\ Idle
    /\ k \in 1..Len(conns)
    /\ conns[k].socket = "open"
    /\ Len(events) < MaxEvents
    /\ LET e == Len(events) + 1
           ev == [room |-> conns[k].room, speaker |-> conns[k].speaker,
                  conn |-> k, text |-> text, language |-> "en",
                  isFinal |-> isFinal]
       IN  /\ events' = Append(events, ev)
           /\ IF dispatch(isFinal) = "final"
              THEN /\ tasks' = Append(tasks, NewTask("save", Registered(ev.room),
                                                 conns[k].finished > 0))
                   /\ UNCHANGED pubLog
              ELSE /\ tasks' = Append(tasks, NewTask("done", Registered(ev.room),
                                                 conns[k].finished > 0))
                   /\ pubLog' = Append(pubLog, broadcastCaption(e, ev, FALSE))
    /\ UNCHANGED <<cfgVars, logVars, failedSends, httpLog, agentVars, storeVars, translationCache, trLog,
                   touched, firstText>>

\* a handleFinalTranscript that returns when the transcript was not saved
Mut_afterSave(saved) == IF saved = NoId THEN "done" ELSE "langs"

\* handleFinalTranscript after processFinalTranscript (agent.js 212-217): a
\* transcript that was not saved is logged, and the handler goes on to
\* getMeetingLanguages either way
afterSave(saved) == "langs"

\* saveTranscript settled (transcripts.js 31-38, deepgram.js 153-170,
\* agent.js 212-217): the row or null; then getMeetingLanguages is called
saveResolved(e, ok) ==
    /\ e \in 1..Len(tasks)
    /\ tasks[e].pc = "save"
    /\ dbTranscripts' = IF ok THEN dbTranscripts \cup {e} ELSE dbTranscripts
    /\ tasks' = [tasks EXCEPT ![e].saved = IF ok THEN e ELSE NoId,
                              ![e].pc = afterSave(IF ok THEN e ELSE NoId)]
    /\ UNCHANGED <<cfgVars, logVars, failedSends, httpLog, agentVars, participantsDb, userSettings,
                   dbTranslations, events, translationCache, pubLog, trLog,
                   touched, firstText>>

\* a handleFinalTranscript that does not look at the translation flag
Mut_noTranslationNeeded(participantLangs) == Len(participantLangs) = 0

\* a handleFinalTranscript that looks at the translation flag only
Mut_noTranslationNeededFlag(participantLangs) == ~translation

\* the test of handleFinalTranscript that sends the original to everybody
\* (agent.js 219)
noTranslationNeeded(participantLangs) ==
    ~translation \/ Len(participantLangs) = 0

\* getMeetingLanguages settled, [] on an error (logger.js 150-153); then the
\* broadcast of the original (agent.js 219-231) or the translation loop
langsResolved(e, ok) ==
    /\ e \in 1..Len(tasks)
    /\ tasks[e].pc = "langs"
    /\   LET participantLangs == IF ok THEN getMeetingLanguages ELSE <<>>
         IN  IF noTranslationNeeded(participantLangs)
             THEN /\ pubLog' = Append(pubLog, broadcastCaption(e, events[e], TRUE))
                  /\ tasks' = [tasks EXCEPT ![e].pc = "done"]
                  /\ UNCHANGED <<translationCache, trLog, touched, firstText>>
             ELSE Continue(e, [Resumed(e) EXCEPT !.task.langs = participantLangs])
    /\ UNCHANGED <<cfgVars, logVars, failedSends, httpLog, agentVars, storeVars, events>>

\* getTranslation settled (env.js 174-181, 183-193): a hit is stored in the
\* memory cache and returned, otherwise the provider is called
dbGetResolved(e, ok) ==
    /\ e \in 1..Len(tasks)
    /\ tasks[e].pc = "dbget"
    /\   LET t == tasks[e]
             dbCached == IF ok THEN getTranslation(t.saved, TargetOf(t))
                         ELSE Undefined
         IN  IF dbCached # Undefined
             THEN Continue(e, [Resumed(e) EXCEPT
                      !.cache = CacheSet(@, KeyOf(e, t), dbCached),
                      !.first = FirstSet(@, KeyOf(e, t), dbCached),
                      !.tr = @ \cup {TrRec(e, t.i, KeyOf(e, t), t.seen, dbCached,
                                           "db", "none")},
                      !.ops = @ \cup {<<e, t.i, "memset">>},
                      !.task = Pushed(t, dbCached)])
             ELSE /\ tasks' = [tasks EXCEPT ![e].pc = "provider"]
                  /\ touched' = touched \cup {<<e, t.i, "provider">>}
                  /\ UNCHANGED <<pubLog, translationCache, trLog, firstText>>
    /\ UNCHANGED <<cfgVars, logVars, failedSends, httpLog, agentVars, storeVars, events>>

\* a translateText whose try block swallows a provider error
Mut_thrown(res) == FALSE

\* the provider call throws: the HTTP request failed, was answered with an
\* error status or ran into the 5 s timeout (env.js 109-123); translateText's
\* catch takes over (env.js 208-213)
thrown(res) == res = "fail"

\* a catch that keeps the text it falls back to
Mut_onTranslationFailed(cache, key, text) == CacheSet(cache, key, text)

\* the catch of translateText (env.js 208-213): the error is logged and the
\* text returned; the memory cache is not written
onTranslationFailed(cache, key, text) == cache

\* the provider call settled (env.js 187-213) with the answer res or with an
\* error ("fail", also the 5 s timeout of env.js 116): the translation is
\* cached and, with a transcript id, saveTranslation is called; an error
\* returns the text
providerResolved(e, res) ==
    /\ e \in 1..Len(tasks)
    /\ tasks[e].pc = "provider"
    /\   LET t == tasks[e]
             key == KeyOf(e, t)
             translatedText == ProviderText(events[e].text, TargetOf(t), res)
             \* observation: the provider did not answer this call
             failed == IF res = "fail" THEN {<<e, t.i, "failed">>} ELSE {}
         IN  IF thrown(res)
             THEN Continue(e, [Resumed(e) EXCEPT
                      !.cache = onTranslationFailed(@, key, events[e].text),
                      !.tr = @ \cup {TrRec(e, t.i, key, t.seen, events[e].text,
                                           "fail", "none")},
                      !.ops = @ \cup failed,
                      !.task = Pushed(t, events[e].text)])
             ELSE IF ~cacheTranslations
             THEN Continue(e, [Resumed(e) EXCEPT
                      !.tr = @ \cup {TrRec(e, t.i, key, t.seen, translatedText,
                                           "prov", "none")},
                      !.ops = @ \cup failed,
                      !.task = Pushed(t, translatedText)])
             ELSE IF t.saved = NoId
             THEN Continue(e, [Resumed(e) EXCEPT
                      !.cache = CacheSet(@, key, translatedText),
                      !.first = FirstSet(@, key, translatedText),
                      !.tr = @ \cup {TrRec(e, t.i, key, t.seen, translatedText,
                                           "prov", "none")},
                      !.ops = @ \cup failed \cup {<<e, t.i, "memset">>},
                      !.task = Pushed(t, translatedText)])
             ELSE /\ translationCache' = CacheSet(translationCache, key, translatedText)
                  /\ firstText' = FirstSet(firstText, key, translatedText)
                  /\ tasks' = [tasks EXCEPT ![e].pc = "dbsave",
                                            ![e].cur = translatedText]
                  /\ touched' = touched \cup failed \cup
                                   {<<e, t.i, "memset">>, <<e, t.i, "dbsave">>}
                  /\ UNCHANGED <<pubLog, trLog>>
    /\ UNCHANGED <<cfgVars, logVars, failedSends, httpLog, agentVars, storeVars, events>>

\* saveTranslation settled (transcripts.js 64-92, env.js 205-206): the row is
\* inserted unless the insert fails or (transcript_id, target_language) exists
\* (database_transcription_schema.sql 47); translateText returns either way
dbSaveResolved(e, ok) ==
    /\ e \in 1..Len(tasks)
    /\ tasks[e].pc = "dbsave"
    /\   LET t == tasks[e]
             dup == \E r \in dbTranslations :
                        /\ r.transcript_id = t.saved
                        /\ r.target_language = TargetOf(t)
             stored == IF ~ok THEN "err" ELSE IF dup THEN "dup" ELSE "ok"
         IN  /\ dbTranslations' =
                    IF stored = "ok"
                    THEN dbTranslations \cup
                           {[transcript_id |-> t.saved,
                             target_language |-> TargetOf(t),
                             translated_text |-> t.cur]}
                    ELSE dbTranslations
             /\ Continue(e, [Resumed(e) EXCEPT
                    !.tr = @ \cup {TrRec(e, t.i, KeyOf(e, t), t.seen, t.cur,
                                         "prov", stored)},
                    !.task = Pushed(t, t.cur)])
    /\ UNCHANGED <<cfgVars, logVars, failedSends, httpLog, agentVars, participantsDb, userSettings,
                   dbTranscripts, events>>

\* a sendCaptionToParticipant / broadcastCaption that sends again, twice,
\* when publishData rejected
Mut_onPublishError(n) == <<pubLog[n], pubLog[n]>>

\* the catch of sendCaptionToParticipant and of broadcastCaption
\* (dataChannel.js 47-53, 92-98): the error is logged and false returned; the
\* publishData calls made in response: none
onPublishError(n) == <<>>

\* the publishData call n rejected (dataChannel.js 34-38, 80-83): the caller's
\* catch runs; Promise.all of sendTranslatedCaptions (dataChannel.js 117) and
\* the handler's await get a resolved false
publishRejected(n) ==
    /\ n \in 1..Len(pubLog)
    /\ n \notin failedSends
    /\ failedSends' = failedSends \cup {n}
    /\ pubLog' = pubLog \o onPublishError(n)
    /\ UNCHANGED <<cfgVars, logVars, httpLog, agentVars, storeVars, events, tasks,
                   translationCache, trLog, touched, firstText>>

\* the entry of key is older than stdTTL (env.js 102): node-cache answers
\* undefined for it from now on, and the key's freshness window is over
expire(key) ==
    /\ key \in DOMAIN translationCache
    /\ translationCache' = [k \in DOMAIN translationCache \ {key} |->
                               translationCache[k]]
    /\ firstText' = [k \in DOMAIN firstText \ {key} |-> firstText[k]]
    /\ UNCHANGED <<cfgVars, logVars, failedSends, httpLog, agentVars, storeVars, events, tasks, pubLog, trLog,
                   touched>>

\* ---------------------------------------------------------------- server
\* (the Express application of src/src/config/env.js, lines 259-1277)

\* a layer of the application's stack: kind "cors" answers a preflight and
\* passes everything else on, "next" always passes on, "route" answers the
\* requests of its method and path, "final" answers every request it gets.
\* path is a sequence of segments, line the line that registers the layer
Layer(kind, method, path, line) ==
    [kind |-> kind, method |-> method, path |-> path, line |-> line]

\* the stack, in the order app.use / app.get / app.post / app.put register it
\* (the 4-argument error handler of line 1144 is only entered with an error)
app ==
    << Layer("cors", "", <<>>, 352),
       Layer("next", "", <<>>, 359),
       Layer("next", "", <<>>, 367),
       Layer("route", "POST", <<"livekit-webhook">>, 375),
       Layer("route", "GET", <<"health">>, 437),
       Layer("route", "GET", <<>>, 448),
       Layer("route", "POST", <<"create-meeting">>, 463),
       Layer("route", "POST", <<"join-meeting">>, 554),
       Layer("route", "POST", <<"end-meeting">>, 592),
       Layer("route", "POST", <<"create-meeting-with-details">>, 633),
       Layer("route", "POST", <<"join-meeting-track">>, 683),
       Layer("route", "POST", <<"save-transcript">>, 730),
       Layer("route", "GET", <<"meeting-history", ":userId">>, 754),
       Layer("route", "GET", <<"meeting-details", ":meetingId">>, 772),
       Layer("final", "", <<>>, 805),
       Layer("route", "POST", <<"end-meeting">>, 813),
       Layer("route", "POST", <<"end-meeting-inactivity">>, 885),
       Layer("route", "POST", <<"start-transcription", ":meetingId">>, 966),
       Layer("route", "POST", <<"stop-transcription", ":meetingId">>, 1022),
       Layer("route", "GET", <<"meeting-transcripts", ":meetingId">>, 1042),
       Layer("route", "GET", <<"user-settings", ":userId">>, 1061),
       Layer("route", "PUT", <<"user-settings", ":userId">>, 1079),
       Layer("route", "GET", <<"transcription-sessions">>, 1103),
       Layer("route", "GET", <<"health">>, 1119) >>

\* a named segment of a route's path matches any segment of the request
IsParam(segment) == segment \in {":meetingId", ":userId"}

\* Express matches a route's path segment by segment
PathMatches(pattern, path) ==
    /\ Len(pattern) = Len(path)
    /\ \A i \in 1..Len(pattern) : IsParam(pattern[i]) \/ pattern[i] = path[i]

\* the layer ends the request instead of passing it on
Answers(layer, method, path) ==
    CASE layer.kind = "cors" -> method = "OPTIONS"
      [] layer.kind = "next" -> FALSE
      [] layer.kind = "route" -> layer.method = method /\ PathMatches(layer.path, path)
      [] OTHER -> TRUE

\* the request goes down the stack from layer i on: the line of the first
\* layer that answers it, 0 when none does (Express's own 404)
RECURSIVE handle(_, _, _)
handle(method, path, i) ==
    IF i > Len(app) THEN 0
    ELSE IF Answers(app[i], method, path) THEN app[i].line
    ELSE handle(method, path, i + 1)

\* the server receives a request
httpRequest(method, path) ==
    /\ Len(httpLog) < MaxRequests
    /\ httpLog' = Append(httpLog, [method |-> method, path |-> path,
                                   line |-> handle(method, path, 1)])
    /\ UNCHANGED <<cfgVars, logVars, failedSends, agentVars, storeVars, events, tasks,
                   translationCache, pubLog, trLog, touched, firstText>>

\* ------------------------------------------------------------- the logger

\* the keys of LOG_LEVELS (logger.js 8-13)
Levels == {"error", "warn", "info", "debug"}

\* LOG_LEVELS[name] (logger.js 8-13, 15): the number of a key, undefined (-1
\* here) for any other name
LOG_LEVELS(name) ==
    IF name = "error" THEN 0
    ELSE IF name = "warn" THEN 1
    ELSE IF name = "info" THEN 2
    ELSE IF name = "debug" THEN 3
    ELSE -1

\* config.logLevel (env.js 77): process.env.LOG_LEVEL || 'info'
logLevel == IF LOG_LEVEL = Undefined THEN "info" ELSE LOG_LEVEL

\* currentLevel (logger.js 15): LOG_LEVELS[config.logLevel] || LOG_LEVELS.info;
\* `||` takes the right operand when the left one is undefined or 0
currentLevel ==
    IF LOG_LEVELS(logLevel) = -1 \/ LOG_LEVELS(logLevel) = 0
    THEN LOG_LEVELS("info")
    ELSE LOG_LEVELS(logLevel)

\* the test of logger.error / warn / info / debug (logger.js 25, 31, 37, 43)
emits(level) == currentLevel >= LOG_LEVELS(level)

\* one call of logger[level](message) (logger.js 23-47)
log(level) ==
    /\ Len(logged) < MaxLogs
    /\ logged' = Append(logged, [level |-> level, emitted |-> emits(level)])
    /\ UNCHANGED <<cfgVars, LOG_LEVEL, failedSends, httpLog, agentVars, storeVars,
                   events, tasks, translationCache, pubLog, trLog, touched,
                   firstText>>

\* ------------------------------------------------------- specifications

Users == {"u1", "u2"}

\* the meeting's participants and their stored languages
Prefs(p, l1, l2) ==
    [p |-> p, s |-> [u \in Users |-> IF u = "u1" THEN l1 ELSE l2]]

PrefChoices ==
    { Prefs(<<>>, Undefined, Undefined),
      Prefs(<<"u1", "u2">>, "ta", Undefined),
      Prefs(<<"u1", "u2">>, "ta", "hi"),
      Prefs(<<"u1", "u2">>, "ta", "ta") }

NoEntries == [k \in {} |-> Undefined]

\* the process after its modules are loaded: nothing started
Init ==
    /\ transcription \in BOOLEAN
    /\ translation = TRUE
    /\ cacheTranslations = TRUE
    /\ activeSessions = [m \in Meetings |-> 0]
    /\ rooms = <<>>
    /\ conns = <<>>
    /\ calls = <<>>
    /\ events = <<>>
    /\ tasks = <<>>
    /\ translationCache = NoEntries
    /\ participantsDb = <<>>
    /\ userSettings = [u \in Users |-> Undefined]
    /\ dbTranscripts = {}
    /\ dbTranslations = {}
    /\ pubLog = <<>>
    /\ trLog = {}
    /\ touched = {}
    /\ firstText = NoEntries
    /\ failedSends = {}
    /\ httpLog = <<>>
    /\ LOG_LEVEL = Undefined
    /\ logged = <<>>

Next ==
    \/ \E m \in Meetings : startTranscription(m)
    \/ \E c \in 1..MaxCalls : connectResolved(c)
    \/ \E c \in 1..MaxCalls : startNoticeResolved(c)
    \/ \E r \in 1..MaxRooms, s \in Speakers : trackSubscribed(r, s)
    \/ \E r \in 1..MaxRooms, s \in Speakers : participantConnected(r, s)
    \/ \E k \in 1..MaxConns : handleAudioTrackResolved(k)
    \/ \E r \in 1..MaxRooms, s \in Speakers : trackUnsubscribed(r, s)
    \/ \E r \in 1..MaxRooms, s \in Speakers : participantDisconnected(r, s)
    \/ \E m \in Meetings : stopTranscription(m)
    \/ \E c \in 1..MaxCalls : stopNoticeResolved(c)
    \/ \E c \in 1..(MaxCalls + MaxRooms) : disconnectResolved(c)
    \/ \E r \in 1..MaxRooms : disconnected(r)

\* the agent: meetings started and stopped, participants and tracks coming
\* and going
Spec == Init /\ [][Next]_vars

\* a meeting whose transcription was started and whose two speakers' audio
\* tracks are being transcribed
Transcribing(prefs) ==
    /\ transcription = TRUE
    /\ translation = TRUE
    /\ activeSessions = [m \in Meetings |-> 1]
    /\ rooms = << [meetingId |-> "m1", state |-> "connected", session |-> TRUE,
                   ts |-> [s \in Speakers |-> IF s = "A" THEN 1 ELSE 2],
                   createError |-> FALSE] >>
    /\ conns = << [room |-> 1, speaker |-> "A", pending |-> "", finished |-> 0,
                   sent |-> {}, socket |-> "open"],
                  [room |-> 1, speaker |-> "B", pending |-> "", finished |-> 0,
                   sent |-> {}, socket |-> "open"] >>
    /\ calls = << Call("start", "m1", "done", 1, "ok") >>
    /\ events = <<>>
    /\ tasks = <<>>
    /\ translationCache = NoEntries
    /\ participantsDb = prefs.p
    /\ userSettings = prefs.s
    /\ dbTranscripts = {}
    /\ dbTranslations = {}
    /\ pubLog = <<>>
    /\ trLog = {}
    /\ touched = {}
    /\ firstText = NoEntries
    /\ failedSends = {}
    /\ httpLog = <<>>
    /\ LOG_LEVEL = Undefined
    /\ logged = <<>>

InitCaptions ==
    /\ cacheTranslations \in BOOLEAN
    /\ \E prefs \in PrefChoices : Transcribing(prefs)

NextCaptions ==
    \/ \E k \in 1..MaxConns, isFinal \in BOOLEAN : transcript(k, "hello", isFinal)
    \/ \E e \in 1..MaxEvents, ok \in BOOLEAN : saveResolved(e, ok)
    \/ \E e \in 1..MaxEvents, ok \in BOOLEAN : langsResolved(e, ok)
    \/ \E e \in 1..MaxEvents, ok \in BOOLEAN : dbGetResolved(e, ok)
    \/ \E e \in 1..MaxEvents, res \in {"1", "fail"} : providerResolved(e, res)
    \/ \E e \in 1..MaxEvents, ok \in BOOLEAN : dbSaveResolved(e, ok)

\* the transcript pipeline of a running meeting: every store call and every
\* provider call may succeed or fail
SpecCaptions == InitCaptions /\ [][NextCaptions]_vars

\* the meeting of SpecCaptions while it is stopped: stopTranscription and the
\* room's Disconnected event run between the steps of the pipeline
InitStop ==
    /\ cacheTranslations = TRUE
    /\ \E prefs \in {Prefs(<<>>, Undefined, Undefined),
                     Prefs(<<"u1", "u2">>, "ta", Undefined)} : Transcribing(prefs)

NextStop ==
    \/ \E k \in 1..MaxConns, isFinal \in BOOLEAN : transcript(k, "hello", isFinal)
    \/ \E e \in 1..MaxEvents : saveResolved(e, TRUE)
    \/ \E e \in 1..MaxEvents, ok \in BOOLEAN : langsResolved(e, ok)
    \/ \E e \in 1..MaxEvents : dbGetResolved(e, TRUE)
    \/ \E e \in 1..MaxEvents, res \in {"1", "fail"} : providerResolved(e, res)
    \/ \E e \in 1..MaxEvents : dbSaveResolved(e, TRUE)
    \/ \E m \in Meetings : stopTranscription(m)
    \/ \E c \in 1..MaxCalls : stopNoticeResolved(c)
    \/ \E c \in 1..(MaxCalls + MaxRooms) : disconnectResolved(c)
    \/ \E r \in 1..MaxRooms : disconnected(r)
    \/ \E k \in 1..MaxConns : audioData(k)

SpecStop == InitStop /\ [][NextStop]_vars

\* the pipeline when every store call and every provider call settles: the
\* store client answers or errors, the provider call answers, errors or runs
\* into its 5 s timeout (env.js 116)
InitLive ==
    /\ cacheTranslations \in BOOLEAN
    /\ Transcribing(Prefs(<<"u1", "u2">>, "ta", "hi"))

\* one pending store or provider call settles
Settle ==
    \E e \in 1..MaxEvents :
        \/ \E ok \in BOOLEAN : saveResolved(e, ok)
        \/ \E ok \in BOOLEAN : langsResolved(e, ok)
        \/ \E ok \in BOOLEAN : dbGetResolved(e, ok)
        \/ \E res \in {"1", "fail"} : providerResolved(e, res)
        \/ \E ok \in BOOLEAN : dbSaveResolved(e, ok)

SpecLive == InitLive /\ [][NextCaptions]_vars /\ WF_vars(Settle)

\* the pipeline of a running meeting whose publishData calls may reject
InitSend ==
    /\ cacheTranslations = TRUE
    /\ Transcribing(Prefs(<<"u1", "u2">>, "ta", Undefined))

NextSend ==
    \/ \E k \in 1..MaxConns, isFinal \in BOOLEAN : transcript(k, "hello", isFinal)
    \/ \E e \in 1..MaxEvents : saveResolved(e, TRUE)
    \/ \E e \in 1..MaxEvents, ok \in BOOLEAN : langsResolved(e, ok)
    \/ \E e \in 1..MaxEvents : dbGetResolved(e, TRUE)
    \/ \E e \in 1..MaxEvents, res \in {"1", "fail"} : providerResolved(e, res)
    \/ \E e \in 1..MaxEvents : dbSaveResolved(e, TRUE)
    \/ \E n \in 1..(2 * MaxEvents) : publishRejected(n)

SpecSend == InitSend /\ [][NextSend]_vars

\* a running meeting in which every kind of local failure happens: recognizer
\* session creation, store calls, provider calls and publishData calls fail,
\* while the meeting may be stopped or its room may disconnect
InitFail ==
    /\ cacheTranslations = TRUE
    /\ Transcribing(Prefs(<<"u1", "u2">>, "ta", Undefined))

NextFail ==
    \/ \E k \in 1..MaxConns : transcript(k, "hello", TRUE)
    \/ \E e \in 1..MaxEvents, ok \in BOOLEAN : saveResolved(e, ok)
    \/ \E e \in 1..MaxEvents, ok \in BOOLEAN : langsResolved(e, ok)
    \/ \E e \in 1..MaxEvents, ok \in BOOLEAN : dbGetResolved(e, ok)
    \/ \E e \in 1..MaxEvents, res \in {"1", "fail"} : providerResolved(e, res)
    \/ \E e \in 1..MaxEvents, ok \in BOOLEAN : dbSaveResolved(e, ok)
    \/ \E n \in 1..(2 * MaxEvents) : publishRejected(n)
    \/ \E r \in 1..MaxRooms, s \in Speakers : trackSubscribedFailed(r, s)
    \/ \E m \in Meetings : stopTranscription(m)
    \/ \E c \in 1..MaxCalls : stopNoticeResolved(c)
    \/ \E c \in 1..(MaxCalls + MaxRooms) : disconnectResolved(c)
    \/ \E r \in 1..MaxRooms : disconnected(r)

SpecFail == InitFail /\ [][NextFail]_vars

\* a running meeting whose recognizer connections may end at any time, asked
\* for or not; every pending store or provider call settles
InitLink ==
    /\ cacheTranslations = TRUE
    /\ Transcribing(Prefs(<<"u1", "u2">>, "ta", Undefined))

NextLink ==
    \/ \E k \in 1..MaxConns, isFinal \in BOOLEAN : transcript(k, "hello", isFinal)
    \/ \E e \in 1..MaxEvents : saveResolved(e, TRUE)
    \/ \E e \in 1..MaxEvents, ok \in BOOLEAN : langsResolved(e, ok)
    \/ \E e \in 1..MaxEvents : dbGetResolved(e, TRUE)
    \/ \E e \in 1..MaxEvents, res \in {"1", "fail"} : providerResolved(e, res)
    \/ \E e \in 1..MaxEvents : dbSaveResolved(e, TRUE)
    \/ \E k \in 1..MaxConns : connectionClosed(k)
    \/ \E r \in 1..MaxRooms, s \in Speakers : trackUnsubscribed(r, s)
    \/ \E k \in 1..MaxConns : audioData(k)

SpecLink == InitLink /\ [][NextLink]_vars /\ WF_vars(Settle)

\* the speakers of a running meeting leave or unpublish their tracks while
\* their transcripts are being translated and delivered
InitLeave ==
    /\ cacheTranslations = TRUE
    /\ Transcribing(Prefs(<<"u1", "u2">>, "ta", Undefined))

NextLeave ==
    \/ \E k \in 1..MaxConns, isFinal \in BOOLEAN : transcript(k, "hello", isFinal)
    \/ \E e \in 1..MaxEvents, ok \in BOOLEAN : saveResolved(e, ok)
    \/ \E e \in 1..MaxEvents, ok \in BOOLEAN : langsResolved(e, ok)
    \/ \E e \in 1..MaxEvents : dbGetResolved(e, TRUE)
    \/ \E e \in 1..MaxEvents, res \in {"1", "fail"} : providerResolved(e, res)
    \/ \E e \in 1..MaxEvents : dbSaveResolved(e, TRUE)
    \/ \E r \in 1..MaxRooms, s \in Speakers : trackUnsubscribed(r, s)
    \/ \E r \in 1..MaxRooms, s \in Speakers : participantDisconnected(r, s)

SpecLeave == InitLeave /\ [][NextLeave]_vars

\* two listeners of one language, a provider whose answer for one request may
\* differ from call to call, and cache entries that reach their TTL
InitCache ==
    /\ cacheTranslations = TRUE
    /\ Transcribing(Prefs(<<"u1", "u2">>, "ta", "ta"))

NextCache ==
    \/ \E k \in 1..MaxConns, text \in Texts : transcript(k, text, TRUE)
    \/ \E e \in 1..MaxEvents, ok \in BOOLEAN : saveResolved(e, ok)
    \/ \E e \in 1..MaxEvents : langsResolved(e, TRUE)
    \/ \E e \in 1..MaxEvents, ok \in BOOLEAN : dbGetResolved(e, ok)
    \/ \E e \in 1..MaxEvents, res \in Variants \cup {"fail"} :
          providerResolved(e, res)
    \/ \E e \in 1..MaxEvents, ok \in BOOLEAN : dbSaveResolved(e, ok)
    \/ \E text \in Texts : expire(cacheKey(text, "en", "ta"))

SpecCache == InitCache /\ [][NextCache]_vars

\* the process started with any setting of ENABLE_TRANSCRIPTION and
\* ENABLE_TRANSLATION (env.js 69-74), for a meeting with one listener
InitFlags ==
    /\ transcription \in BOOLEAN
    /\ translation \in BOOLEAN
    /\ cacheTranslations = TRUE
    /\ activeSessions = [m \in Meetings |-> 0]
    /\ rooms = <<>>
    /\ conns = <<>>
    /\ calls = <<>>
    /\ events = <<>>
    /\ tasks = <<>>
    /\ translationCache = NoEntries
    /\ participantsDb = <<"u1">>
    /\ userSettings = Prefs(<<"u1">>, "ta", Undefined).s
    /\ dbTranscripts = {}
    /\ dbTranslations = {}
    /\ pubLog = <<>>
    /\ trLog = {}
    /\ touched = {}
    /\ firstText = NoEntries
    /\ failedSends = {}
    /\ httpLog = <<>>
    /\ LOG_LEVEL = Undefined
    /\ logged = <<>>

NextFlags ==
    \/ \E m \in Meetings : startTranscription(m)
    \/ \E c \in 1..MaxCalls : connectResolved(c)
    \/ \E c \in 1..MaxCalls : startNoticeResolved(c)
    \/ \E k \in 1..MaxConns : handleAudioTrackResolved(k)
    \/ \E k \in 1..MaxConns : transcript(k, "hello", TRUE)
    \/ \E e \in 1..MaxEvents : saveResolved(e, TRUE)
    \/ \E e \in 1..MaxEvents : langsResolved(e, TRUE)
    \/ \E e \in 1..MaxEvents : dbGetResolved(e, TRUE)
    \/ \E e \in 1..MaxEvents : providerResolved(e, "1")
    \/ \E e \in 1..MaxEvents : dbSaveResolved(e, TRUE)

SpecFlags == InitFlags /\ [][NextFlags]_vars

\* the requests sent to the server
Paths ==
    { <<"health">>, <<"end-meeting">>, <<"start-transcription", "m1">>,
      <<"stop-transcription", "m1">>, <<"transcription-sessions">>,
      <<"meeting-details", "m1">>, <<"nowhere">> }

NextHttp ==
    \E method \in {"GET", "POST", "OPTIONS"}, path \in Paths :
        httpRequest(method, path)

\* the server answering requests, no meeting being transcribed
SpecHttp == Init /\ [][NextHttp]_vars

\* transcripts that differ only in leading, repeated and trailing whitespace
SpacedTexts == {"hello world", " hello  world "}

\* a running meeting whose recognizer words one utterance with different
\* whitespace from one final to the next
InitSpaces ==
    /\ cacheTranslations = TRUE
    /\ Transcribing(Prefs(<<"u1", "u2">>, "ta", Undefined))

NextSpaces ==
    \/ \E k \in 1..MaxConns, text \in SpacedTexts : transcript(k, text, TRUE)
    \/ \E e \in 1..MaxEvents, ok \in BOOLEAN : saveResolved(e, ok)
    \/ \E e \in 1..MaxEvents : langsResolved(e, TRUE)
    \/ \E e \in 1..MaxEvents, ok \in BOOLEAN : dbGetResolved(e, ok)
    \/ \E e \in 1..MaxEvents, res \in {"1", "fail"} : providerResolved(e, res)
    \/ \E e \in 1..MaxEvents, ok \in BOOLEAN : dbSaveResolved(e, ok)

SpecSpaces == InitSpaces /\ [][NextSpaces]_vars

\* transcripts and preferred languages that contain the separator of the
\* cache key: preferred_language is stored as the client sent it
KeyTexts == {"hello", "hello_en"}

\* a running meeting whose two listeners prefer 'en_US' and 'US'
InitKey ==
    /\ cacheTranslations = TRUE
    /\ Transcribing(Prefs(<<"u1", "u2">>, "en_US", "US"))

NextKey ==
    \/ \E k \in 1..MaxConns, text \in KeyTexts : transcript(k, text, TRUE)
    \/ \E e \in 1..MaxEvents, ok \in BOOLEAN : saveResolved(e, ok)
    \/ \E e \in 1..MaxEvents : langsResolved(e, TRUE)
    \/ \E e \in 1..MaxEvents, ok \in BOOLEAN : dbGetResolved(e, ok)
    \/ \E e \in 1..MaxEvents, res \in {"1", "fail"} : providerResolved(e, res)
    \/ \E e \in 1..MaxEvents, ok \in BOOLEAN : dbSaveResolved(e, ok)

SpecKey == InitKey /\ [][NextKey]_vars

\* the values LOG_LEVEL is started with: unset, the four levels, another name
LogLevelSettings == {Undefined, "error", "warn", "info", "debug", "verbose"}

InitLog ==
    /\ transcription = TRUE
    /\ translation = TRUE
    /\ cacheTranslations = TRUE
    /\ activeSessions = [m \in Meetings |-> 0]
    /\ rooms = <<>>
    /\ conns = <<>>
    /\ calls = <<>>
    /\ events = <<>>
    /\ tasks = <<>>
    /\ translationCache = NoEntries
    /\ participantsDb = <<>>
    /\ userSettings = [u \in Users |-> Undefined]
    /\ dbTranscripts = {}
    /\ dbTranslations = {}
    /\ pubLog = <<>>
    /\ trLog = {}
    /\ touched = {}
    /\ firstText = NoEntries
    /\ failedSends = {}
    /\ httpLog = <<>>
    /\ LOG_LEVEL \in LogLevelSettings
    /\ logged = <<>>

NextLog == \E level \in Levels : log(level)

\* the logger of a process started with any LOG_LEVEL
SpecLog == InitLog /\ [][NextLog]_vars

\* the identities connected to the room (room.participants, agent.js 54): the
\* users of the application, whose ids are their identities (agent.js 244-246)
participants == Users

\* a running meeting that u2 has joined as a guest: only u1 has a row in
\* meeting_participants
InitGuest ==
    /\ cacheTranslations = TRUE
    /\ Transcribing(Prefs(<<"u1">>, "ta", Undefined))

SpecGuest == InitGuest /\ [][NextCaptions]_vars

\* ----------------------------------------------------------------- claims

\* C1: when a speaker's recognizer produces the final transcript F1 before
\* the final transcript F2, every listener's caption for F1 is handed to
\* publishData before that listener's caption for F2. pubLog holds the
\* publishData invocations in the order they are made, events the transcripts
\* in the order the recognizer produced them.
C1_FinalsDeliveredInOrder ==
    \A i, j \in 1..Len(pubLog) :
        LET p == pubLog[i]
            q == pubLog[j]
        IN  (/\ i < j
             /\ events[p.ev].isFinal /\ events[q.ev].isFinal
             /\ events[p.ev].room = events[q.ev].room
             /\ events[p.ev].speaker = events[q.ev].speaker
             /\ (p.to = q.to \/ p.to = "*" \/ q.to = "*"))
            => p.ev <= q.ev

\* C2: the transcript events of one speaker are handled one at a time in
\* arrival order: the handling of an event starts only when the handling of
\* every earlier event of that speaker is complete, and an interim caption
\* that arrived after a final transcript is never published before that
\* final's captions.
C2_OneEventAtATime ==
    /\ \A e1, e2 \in 1..Len(events) :
         (/\ e1 < e2
          /\ events[e1].room = events[e2].room
          /\ events[e1].speaker = events[e2].speaker)
         => tasks[e1].pc = "done"
    /\ \A i, j \in 1..Len(pubLog) :
         LET p == pubLog[i]
             q == pubLog[j]
         IN  (/\ i < j
              /\ ~events[p.ev].isFinal /\ events[q.ev].isFinal
              /\ events[p.ev].room = events[q.ev].room
              /\ events[p.ev].speaker = events[q.ev].speaker)
             => p.ev < q.ev

\* C3: a startTranscription(M) entered while M's session is registered (the
\* state a successful start leaves until a stop or cleanup deletes the entry)
\* returns at once with the failure 'Already transcribing' and changes neither
\* activeSessions nor any room or recognizer connection: the one session is
\* still the first call's.
C3_SecondStartRejected ==
    [][\A m \in Meetings :
          (/\ activeSessions[m] # 0
           /\ Len(calls') = Len(calls) + 1
           /\ calls'[Len(calls')].kind = "start"
           /\ calls'[Len(calls')].meetingId = m)
          => (/\ calls'[Len(calls')].pc = "done"
              /\ calls'[Len(calls')].result = "already"
              /\ activeSessions' = activeSessions
              /\ rooms' = rooms
              /\ conns' = conns)]_vars

\* C3 happens: a start returned 'Already transcribing' after an earlier start
\* had succeeded, and the meeting still maps to the earlier call's session
C3_Witness ==
    \E c0, c \in 1..Len(calls) :
        /\ c0 < c
        /\ calls[c0].kind = "start" /\ calls[c0].result = "ok"
        /\ calls[c].kind = "start" /\ calls[c].result = "already"
        /\ activeSessions[calls[c].meetingId] = calls[c0].room

\* C4: stopTranscription(M) with no session returns the not-active failure
\* and changes nothing; when it found a session and returns success, every
\* recognizer connection of that session has been closed, its room is
\* disconnected and M is not in activeSessions.
C4_StopLeavesNothing ==
    [][/\ \A m \in Meetings :
            (/\ activeSessions[m] = 0
             /\ Len(calls') = Len(calls) + 1
             /\ calls'[Len(calls')].kind = "stop"
             /\ calls'[Len(calls')].meetingId = m)
            => (/\ calls'[Len(calls')].result = "notactive"
                /\ activeSessions' = activeSessions
                /\ rooms' = rooms
                /\ conns' = conns)
       /\ \A c \in 1..Len(calls) :
            (/\ calls[c].kind = "stop"
             /\ calls[c].pc # "done"
             /\ calls'[c].pc = "done"
             /\ calls'[c].result = "ok")
            => (/\ activeSessions'[calls[c].meetingId] = 0
                /\ rooms'[calls[c].room].state = "disconnected"
                /\ \A k \in 1..Len(conns') :
                      conns'[k].room = calls[c].room => conns'[k].finished > 0)
      ]_vars

\* C5: a final transcript whose handling began while its meeting's session was
\* registered makes no publishData call once the session has been removed from
\* activeSessions.
C5_NoPublishAfterRemoval ==
    \A i \in 1..Len(pubLog) :
        (/\ events[pubLog[i].ev].isFinal
         /\ tasks[pubLog[i].ev].registered0)
        => pubLog[i].registered

\* C6: an interim transcript produces exactly one publishData, a broadcast
\* with isFinal false and translatedText equal to the original text, and
\* touches neither the provider, the cache nor the store; saveTranscript and
\* translateText are reached by final transcripts only.
C6_InterimOnlyBroadcast ==
    /\ \A e \in 1..Len(events) :
         ~events[e].isFinal =>
            /\ Cardinality({i \in 1..Len(pubLog) : pubLog[i].ev = e}) = 1
            /\ \A i \in 1..Len(pubLog) :
                  pubLog[i].ev = e =>
                     /\ pubLog[i].to = "*"
                     /\ pubLog[i].isFinal = FALSE
                     /\ pubLog[i].translatedText = events[e].text
            /\ tasks[e].pc = "done"
            /\ tasks[e].saved = NoId
            /\ tasks[e].langs = <<>>
    /\ \A e \in dbTranscripts : events[e].isFinal
    /\ \A r \in dbTranslations : events[r.transcript_id].isFinal
    /\ \A r \in trLog : events[r.ev].isFinal
    /\ \A o \in touched : events[o[1]].isFinal

\* C6 happens: an interim caption was broadcast, and a final transcript was
\* saved and translated
C6_Witness ==
    /\ \E i \in 1..Len(pubLog) : ~events[pubLog[i].ev].isFinal
    /\ dbTranscripts # {}
    /\ \E r \in trLog : r.how = "prov"

\* C7: in a finished fan-out every listener has exactly one caption; the
\* listener whose provider call failed has the original text as
\* translatedText, the listener whose provider call succeeded has the
\* provider's translation.
C7_FailureFallsBackPerLanguage ==
    \A e \in 1..Len(events) :
        (events[e].isFinal /\ tasks[e].pc = "done" /\ Len(tasks[e].langs) > 0) =>
        \A i \in 1..Len(tasks[e].langs) :
            LET l == tasks[e].langs[i]
                sent == {n \in 1..Len(pubLog) :
                            pubLog[n].ev = e /\ pubLog[n].to = l.userId}
            IN  /\ Cardinality(sent) = 1
                /\ \E r \in trLog : r.ev = e /\ r.i = i
                /\ \A r \in trLog, n \in sent :
                      (r.ev = e /\ r.i = i) =>
                         /\ pubLog[n].targetLanguage = l.language
                         /\ r.how = "fail" =>
                               pubLog[n].translatedText = events[e].text
                         /\ r.how = "prov" =>
                               /\ pubLog[n].translatedText = r.ret
                               /\ r.ret \in {ProviderText(events[e].text,
                                                          l.language, v) :
                                                v \in Variants}

\* C7 happens: one fan-out in which the provider failed for one language and
\* answered for another, and both listeners' captions were published
C7_Witness ==
    \E e \in 1..Len(events), r1, r2 \in trLog :
        /\ tasks[e].pc = "done"
        /\ r1.ev = e /\ r2.ev = e
        /\ r1.how = "fail" /\ r2.how = "prov"
        /\ tasks[e].langs[r1.i].language # tasks[e].langs[r2.i].language
        /\ \E n1, n2 \in 1..Len(pubLog) :
              /\ pubLog[n1].ev = e /\ pubLog[n1].to = tasks[e].langs[r1.i].userId
              /\ pubLog[n2].ev = e /\ pubLog[n2].to = tasks[e].langs[r2.i].userId

\* C8: a listener whose language equals the transcript's source language gets
\* translatedText equal to the original text, and for that listener nothing
\* is read from or written to the memory cache or the translations table and
\* the provider is not called.
C8_SameLanguageShortCircuit ==
    \A e \in 1..Len(events) :
        (events[e].isFinal /\ tasks[e].pc = "done") =>
        \A i \in 1..Len(tasks[e].langs) :
            tasks[e].langs[i].language = events[e].language =>
               /\ \A n \in 1..Len(pubLog) :
                     (pubLog[n].ev = e /\ pubLog[n].to = tasks[e].langs[i].userId)
                     => pubLog[n].translatedText = events[e].text
               /\ \A o \in touched : ~(o[1] = e /\ o[2] = i)
               /\ \A r \in trLog : (r.ev = e /\ r.i = i) => r.how = "same"
               /\ \A r \in dbTranslations :
                     ~(r.transcript_id = e
                       /\ r.target_language = events[e].language)

\* C8 happens: a caption was published to a listener of the source language,
\* in a fan-out that also translated for another listener
C8_Witness ==
    \E e \in 1..Len(events), i \in 1..2, n \in 1..Len(pubLog) :
        /\ tasks[e].pc = "done"
        /\ i <= Len(tasks[e].langs)
        /\ tasks[e].langs[i].language = events[e].language
        /\ pubLog[n].ev = e /\ pubLog[n].to = tasks[e].langs[i].userId
        /\ \E r \in trLog : r.ev = e /\ r.how \in {"prov", "mem"}

\* C9: with caching enabled, a translateText call for a key (T, S, L) that was
\* translated before and whose entry has not expired calls no provider and
\* returns exactly the text the first translation returned (seen is that
\* text, recorded when the call begins).
C9_CachedTranslationStable ==
    cacheTranslations =>
    \A r \in trLog :
        r.seen # Undefined => (r.how = "mem" /\ r.ret = r.seen)

\* C10: for a saved final transcript, every listener language other than the
\* source for which a translation was obtained (provider or cache) has a
\* translation record (transcriptId, L). Stated for the default configuration
\* and for runs in which no insert of a transcript or a translation failed.
C10_TranslationPersisted ==
    (/\ cacheTranslations
     /\ \A r \in trLog : r.stored # "err"
     /\ \A e \in 1..Len(tasks) :
           (events[e].isFinal /\ tasks[e].pc # "save") => tasks[e].saved # NoId)
    =>
    \A r \in trLog :
        (/\ tasks[r.ev].pc = "done"
         /\ tasks[r.ev].saved # NoId
         /\ r.how \in {"mem", "db", "prov"})
        => \E row \in dbTranslations :
              /\ row.transcript_id = tasks[r.ev].saved
              /\ row.target_language = tasks[r.ev].langs[r.i].language

\* C11: a translateText call whose provider request timed out or failed writes
\* no cache entry and calls no saveTranslation, so it persists no translation
\* record; the listener it was made for still gets the final caption, with
\* translatedText equal to the original text. A transcript all of whose
\* translations into a language failed has no translation record for it.
C11_ProviderFailureLeavesNoTrace ==
    /\ \A r \in trLog :
          (\A r2 \in trLog :
              (r2.ev = r.ev /\ r2.key = r.key) => r2.how = "fail")
          => \A row \in dbTranslations :
                ~(/\ row.transcript_id = r.ev
                  /\ row.target_language = tasks[r.ev].langs[r.i].language)
    /\ \A o \in touched :
        o[3] = "failed" =>
           LET e == o[1]
               i == o[2]
               l == tasks[e].langs[i]
           IN  /\ <<e, i, "memset">> \notin touched
               /\ <<e, i, "dbsave">> \notin touched
               /\ \A r \in trLog :
                     (r.ev = e /\ r.i = i) =>
                        (r.ret = events[e].text /\ r.stored = "none")
               /\ tasks[e].pc = "done" =>
                     /\ \E n \in 1..Len(pubLog) :
                           pubLog[n].ev = e /\ pubLog[n].to = l.userId
                     /\ \A n \in 1..Len(pubLog) :
                           (pubLog[n].ev = e /\ pubLog[n].to = l.userId) =>
                              /\ pubLog[n].isFinal
                              /\ pubLog[n].translatedText = events[e].text

\* C11 happens: the provider failed for a listener of a saved transcript with
\* caching enabled, and that listener's caption was published
C11_Witness ==
    \E o \in touched, n \in 1..Len(pubLog) :
        /\ o[3] = "failed"
        /\ cacheTranslations
        /\ tasks[o[1]].pc = "done"
        /\ tasks[o[1]].saved # NoId
        /\ pubLog[n].ev = o[1]
        /\ pubLog[n].to = tasks[o[1]].langs[o[2]].userId

\* C12: an audio frame that arrives when its meeting's session is no longer in
\* activeSessions is dropped: it is handed to no recognizer connection.
C12_FrameDroppedWithoutSession ==
    \A k \in 1..Len(conns) : "removed" \notin conns[k].sent

\* C13: a TrackUnsubscribed or ParticipantDisconnected event of a speaker
\* closes the recognizer connection the session's map holds for that speaker
\* and removes the entry, and it leaves the transcripts being handled alone:
\* every final transcript still ends with a caption published for every
\* listener (a broadcast when no listener language is known).
C13_LeaveClosesAndFanOutCompletes ==
    /\ [][\A r \in 1..Len(rooms), s \in Speakers :
            (/\ trackUnsubscribed(r, s) \/ participantDisconnected(r, s)
             /\ rooms[r].ts[s] # 0)
            => (/\ conns'[rooms[r].ts[s]].finished
                     = conns[rooms[r].ts[s]].finished + 1
                /\ rooms'[r].ts[s] = 0
                /\ tasks' = tasks
                /\ pubLog' = pubLog
                /\ activeSessions' = activeSessions)]_vars
    /\ [](\A e \in 1..Len(events) :
            (events[e].isFinal /\ tasks[e].pc = "done") =>
               /\ Len(tasks[e].langs) = 0 =>
                     \E n \in 1..Len(pubLog) :
                        pubLog[n].ev = e /\ pubLog[n].to = "*"
               /\ \A i \in 1..Len(tasks[e].langs) :
                     \E n \in 1..Len(pubLog) :
                        /\ pubLog[n].ev = e
                        /\ pubLog[n].to = tasks[e].langs[i].userId)

\* C13 happens: a final transcript's handling began while the speaker's
\* connection was open, the speaker left (connection closed, entry removed,
\* session still registered) and the caption was published afterwards
C13_Witness ==
    \E n \in 1..Len(pubLog) :
        LET e == pubLog[n].ev
        IN  /\ events[e].isFinal
            /\ ~tasks[e].closed0
            /\ pubLog[n].closed
            /\ pubLog[n].to # "*"
            /\ pubLog[n].registered
            /\ rooms[events[e].room].ts[events[e].speaker] = 0

\* C14: once a live cache entry exists for a key, a later write for the same
\* key does not replace it: until it expires the entry holds the translation
\* that was written first (firstText).
C14_FirstWriterWins ==
    \A key \in DOMAIN translationCache :
        key \in DOMAIN firstText /\ translationCache[key] = firstText[key]

\* C15: in a fan-out the lookup for one target language is started without
\* waiting for another language's lookup: while translateText is awaited for
\* one listener language, the lookup of every other listener language that
\* differs from the source has been started too.
C15_LookupsStartTogether ==
    \A e \in 1..Len(tasks) :
        tasks[e].pc \in {"dbget", "provider", "dbsave"} =>
        \A j \in 1..Len(tasks[e].langs) :
            (/\ tasks[e].langs[j].language # events[e].language
             /\ tasks[e].langs[j].language # TargetOf(tasks[e]))
            => \E o \in touched : o[1] = e /\ o[2] = j

\* C16: the provider calls made for one final transcript never outnumber the
\* distinct listener languages that differ from the source language.
C16_ProviderCallsPerLanguage ==
    \A e \in 1..Len(tasks) :
        Cardinality({o \in touched : o[1] = e /\ o[3] = "provider"})
        <= Cardinality({tasks[e].langs[i].language : i \in 1..Len(tasks[e].langs)}
                       \ {events[e].language})

\* C17: when every external call settles, every final transcript eventually
\* has its handling finished with a publishData made for the meeting's
\* listeners: one per listener, or one broadcast when the listener languages
\* could not be read; whether the stores or the provider failed on the way.
C17_FinalEventuallyDelivered ==
    \A e \in 1..MaxEvents :
        (e <= Len(events) /\ events[e].isFinal)
        ~> (/\ e <= Len(tasks)
            /\ tasks[e].pc = "done"
            /\ Len(tasks[e].langs) = 0 =>
                  \E n \in 1..Len(pubLog) :
                     pubLog[n].ev = e /\ pubLog[n].to = "*" /\ pubLog[n].isFinal
            /\ \A i \in 1..Len(tasks[e].langs) :
                  \E n \in 1..Len(pubLog) :
                     /\ pubLog[n].ev = e
                     /\ pubLog[n].to = tasks[e].langs[i].userId
                     /\ pubLog[n].isFinal)

\* C17 happens: a final transcript whose insert failed and whose translation
\* failed for a listener was delivered to both listeners, and another whose
\* listener languages could not be read was broadcast
C17_Witness ==
    /\ \E e \in 1..Len(events) :
          /\ tasks[e].pc = "done"
          /\ tasks[e].saved = NoId
          /\ \E r \in trLog : r.ev = e /\ r.how = "fail"
          /\ \A i \in 1..2 :
                \E n \in 1..Len(pubLog) :
                   pubLog[n].ev = e /\ pubLog[n].to = tasks[e].langs[i].userId
    /\ \E e \in 1..Len(events), n \in 1..Len(pubLog) :
          /\ events[e].isFinal
          /\ tasks[e].langs = <<>>
          /\ pubLog[n].ev = e /\ pubLog[n].to = "*"

\* C18: a final transcript whose insert failed is still handled to the end:
\* its meeting's session stays registered, translateText is called for every
\* listener of another language, and every listener gets a caption, carrying
\* the translation where one was obtained.
C18_SaveFailureNotFatal ==
    \A e \in 1..Len(events) :
        (events[e].isFinal /\ tasks[e].pc # "save" /\ e \notin dbTranscripts) =>
           /\ Registered(events[e].room)
           /\ tasks[e].pc = "done" =>
                 /\ Len(tasks[e].langs) = 0 =>
                       \E n \in 1..Len(pubLog) :
                          pubLog[n].ev = e /\ pubLog[n].to = "*"
                 /\ \A i \in 1..Len(tasks[e].langs) :
                       /\ \E r \in trLog : r.ev = e /\ r.i = i
                       /\ \A r \in trLog :
                             (r.ev = e /\ r.i = i) =>
                                \E n \in 1..Len(pubLog) :
                                   /\ pubLog[n].ev = e
                                   /\ pubLog[n].to = tasks[e].langs[i].userId
                                   /\ pubLog[n].translatedText = r.ret

\* C18 happens: a final transcript was not saved, was translated by the
\* provider and the translation was published to the listener
C18_Witness ==
    \E e \in 1..Len(events), r \in trLog, n \in 1..Len(pubLog) :
        /\ events[e].isFinal /\ tasks[e].pc = "done"
        /\ e \notin dbTranscripts
        /\ r.ev = e /\ r.how = "prov"
        /\ pubLog[n].ev = e
        /\ pubLog[n].to = tasks[e].langs[r.i].userId
        /\ pubLog[n].translatedText = r.ret
        /\ r.ret # events[e].text

C20_LocalFailuresContained ==
    [][/\ \A m \in Meetings :
            (activeSessions[m] # 0 /\ activeSessions'[m] = 0) =>
               \E c \in 1..Len(calls) :
                  /\ calls[c].kind \in {"stop", "cleanup"}
                  /\ calls[c].meetingId = m
                  /\ calls[c].pc = "disconnect"
                  /\ calls'[c].pc = "done"
       /\ \A k \in 1..Len(conns) :
            conns'[k].finished > conns[k].finished =>
               \E c \in 1..Len(calls') :
                  /\ calls'[c].kind \in {"stop", "cleanup"}
                  /\ calls'[c].pc = "disconnect"
                  /\ calls'[c].target = conns[k].room
                  /\ (c > Len(calls) \/ calls[c].pc # "disconnect")
      ]_vars

\* C20 happens: a recognizer session creation, a transcript insert, a
\* provider call and a publishData call have failed, and the session is
\* registered with both speakers' connections open
C20_Witness ==
    /\ rooms[1].createError
    /\ failedSends # {}
    /\ \E r \in trLog : r.how = "fail"
    /\ \E e \in 1..Len(events) : tasks[e].pc = "done" /\ e \notin dbTranscripts
    /\ Registered(1)
    /\ \A k \in 1..Len(conns) : conns[k].finished = 0

\* C21: a recognizer connection that ends without close() having been called
\* on it puts its SpeechSession back to connecting (from where it retries
\* after 1, 2, 4, 8 and 16 seconds, at most 5 times), and a SpeechSession
\* that has failed stays failed.
C21_ReconnectWithBackoff ==
    [][\A k \in 1..Len(conns) :
          /\ (/\ conns[k].socket = "open"
              /\ conns'[k].socket # "open"
              /\ conns[k].finished = 0)
             => conns'[k].socket = "connecting"
          /\ conns[k].socket = "failed" => conns'[k].socket = "failed"
      ]_vars

\* C22: a speaker whose recognizer connection ended unasked and is not
\* re-established is eventually announced to the room by a degraded-service
\* notice, unless the speaker's connection was closed on request meanwhile.
C22_OneDegradedNotice ==
    \A k \in 1..MaxConns :
        (k <= Len(conns) /\ conns[k].socket = "closed" /\ conns[k].finished = 0)
        ~> (/\ k <= Len(conns)
            /\ \/ conns[k].socket = "open"
               \/ conns[k].finished > 0
               \/ \E msg \in systemMessages :
                     /\ msg.room = conns[k].room
                     /\ msg.message \notin {"Live transcription started",
                                            "Live transcription stopped"})

\* C23: the translation cache never holds more than its maximum number of
\* entries, whatever sequence of distinct texts is translated.
C23_CacheBounded ==
    Cardinality(DOMAIN translationCache) <= MaxCacheEntries

\* the text trimmed and with its runs of whitespace collapsed
Normalized(text) == IF text = " hello  world " THEN "hello world" ELSE text

\* C24: two texts that differ only in leading, trailing or repeated
\* whitespace share one cache entry: the cache never holds an entry for each
\* of them for the same source and target language.
C24_KeyNormalized ==
    \A t1, t2 \in SpacedTexts :
        (/\ Normalized(t1) = Normalized(t2)
         /\ cacheKey(t1, "en", "ta") \in DOMAIN translationCache
         /\ cacheKey(t2, "en", "ta") \in DOMAIN translationCache)
        => t1 = t2

\* C25: with transcription disabled every startTranscription has returned the
\* 'disabled' failure and there is no room and no session; with translation
\* disabled the translator is never called (no cache or provider access, no
\* cache entry) and every final transcript whose handling is complete was
\* published exactly once, as a broadcast of its original text.
C25_FlagsGate ==
    /\ ~transcription =>
         /\ rooms = <<>>
         /\ \A m \in Meetings : activeSessions[m] = 0
         /\ \A c \in 1..Len(calls) :
              calls[c].kind = "start" =>
                 calls[c].pc = "done" /\ calls[c].result = "disabled"
    /\ ~translation =>
         /\ trLog = {} /\ touched = {} /\ translationCache = NoEntries
         /\ \A e \in 1..Len(events) :
              events[e].isFinal =>
                 LET sent == {n \in 1..Len(pubLog) : pubLog[n].ev = e}
                 IN  /\ tasks[e].pc \in {"save", "langs", "done"}
                     /\ tasks[e].pc # "done" => sent = {}
                     /\ tasks[e].pc = "done" =>
                          /\ Cardinality(sent) = 1
                          /\ \A n \in sent :
                               /\ pubLog[n].to = "*"
                               /\ pubLog[n].isFinal
                               /\ pubLog[n].translatedText = events[e].text
                               /\ pubLog[n].targetLanguage = events[e].language

\* C25 happens: translation is disabled, the meeting has listeners with a
\* stored language other than the source, and a final transcript was handled
C25_Witness ==
    /\ ~translation
    /\ \E u \in Users : userSettings[u] = "ta"
    /\ \E e \in 1..Len(events) : events[e].isFinal /\ tasks[e].pc = "done"

\* C25 happens, first half: transcription is disabled and a startTranscription
\* has returned
C25_WitnessDisabled ==
    /\ ~transcription
    /\ \E c \in 1..Len(calls) : calls[c].kind = "start" /\ calls[c].pc = "done"

\* C26: a POST /start-transcription/:meetingId is answered by the handler
\* registered for it (the one that calls startTranscription), and a POST
\* /stop-transcription/:meetingId by the one that calls stopTranscription:
\* not by the catch-all 404 handler or any layer registered before them.
C26_TranscriptionRoutesReached ==
    \A n \in 1..Len(httpLog) :
        LET req == httpLog[n]
        IN  /\ (req.method = "POST" /\ req.path = <<"start-transcription", "m1">>)
               => req.line = 966
            /\ (req.method = "POST" /\ req.path = <<"stop-transcription", "m1">>)
               => req.line = 1022

\* C27: within one meeting's session a speaker never has two recognizer
\* connections open at once, however often audio-track handling is triggered
\* for that speaker.
C27_OneConnectionPerSpeaker ==
    \A k1, k2 \in 1..Len(conns) :
        (/\ k1 # k2
         /\ conns[k1].room = conns[k2].room
         /\ conns[k1].speaker = conns[k2].speaker)
        => \/ conns[k1].finished > 0 \/ conns[k1].socket # "open"
           \/ conns[k2].finished > 0 \/ conns[k2].socket # "open"

\* C28: of two startTranscription calls for one meeting with no successful
\* stop or cleanup between them, at most one returns success, and once no
\* call is in flight at most one room connection of the meeting is open.
C28_OverlappingStartsOneWins ==
    /\ \A c1, c2 \in 1..Len(calls) :
         (/\ c1 < c2
          /\ calls[c1].kind = "start" /\ calls[c2].kind = "start"
          /\ calls[c1].meetingId = calls[c2].meetingId
          /\ calls[c1].result = "ok" /\ calls[c2].result = "ok")
         => \E c \in (c1 + 1)..(c2 - 1) :
               /\ calls[c].kind \in {"stop", "cleanup"}
               /\ calls[c].meetingId = calls[c1].meetingId
               /\ calls[c].result = "ok"
    /\ (\A c \in 1..Len(calls) : calls[c].pc = "done") =>
         \A m \in Meetings :
            Cardinality({r \in 1..Len(rooms) :
                            /\ rooms[r].meetingId = m
                            /\ rooms[r].state = "connected"}) <= 1

\* C29: no recognizer connection is leaked: a stored connection that is no
\* longer its speaker's entry in the session's map (the speaker left, or the
\* entry was replaced), or whose session has been cleaned up, has been closed.
C29_NoConnectionLeaked ==
    \A k \in 1..Len(conns) :
        (/\ conns[k].pending = ""
         /\ \/ rooms[conns[k].room].ts[conns[k].speaker] # k
            \/ \E c \in 1..Len(calls) :
                  /\ calls[c].kind \in {"stop", "cleanup"}
                  /\ calls[c].target = conns[k].room
                  /\ calls[c].result = "ok")
        => conns[k].finished > 0

\* C30: the cleanup a room's Disconnected event starts works on the session
\* that owns that room: it closes recognizer connections of that session
\* only, and the session it goes on to disconnect and remove is that one.
C30_DisconnectedCleansOwnSession ==
    [][(/\ Len(calls') = Len(calls) + 1
        /\ calls'[Len(calls')].kind = "cleanup")
       => \A r \in 1..Len(rooms) :
             (rooms[r].state = "connected" /\ rooms'[r].state = "disconnected")
             => /\ calls'[Len(calls')].target = r
                /\ \A k \in 1..Len(conns) :
                     conns'[k].finished > conns[k].finished => conns[k].room = r
      ]_vars

\* C31: a stopTranscription that returns a failure for a meeting that had a
\* session leaves the recognizer connections of that session open, and
\* after such a stop the meeting is never registered, with no call in flight,
\* while every connection its session holds has been closed.
C31_StopAllOrNothing ==
    /\ [][\A c \in 1..Len(calls) :
            (/\ calls[c].kind = "stop"
             /\ calls[c].room # 0
             /\ calls[c].pc # "done"
             /\ calls'[c].pc = "done"
             /\ calls'[c].result = "error")
            => \A s \in Speakers :
                  LET k == rooms[calls[c].room].ts[s]
                  IN  k # 0 => conns'[k].finished = 0
         ]_vars
    /\ [](\A r \in 1..Len(rooms) :
            (/\ Registered(r)
             /\ \A c \in 1..Len(calls) : calls[c].pc = "done"
             /\ \E c \in 1..Len(calls) :
                   /\ calls[c].kind = "stop"
                   /\ calls[c].room = r
                   /\ calls[c].result = "error"
             /\ \E s \in Speakers : rooms[r].ts[s] # 0)
            => \E s \in Speakers :
                  /\ rooms[r].ts[s] # 0
                  /\ conns[rooms[r].ts[s]].finished = 0)

\* C32: a cleanupSession that the Disconnected handler started never ends in
\* a rejection nobody handles (the one the process-wide handler answers by
\* exiting the process).
C32_CleanupFailureContained ==
    \A c \in 1..Len(calls) :
        calls[c].kind = "cleanup" => calls[c].result # "unhandled"

\* C33: connection.finish() is called at most once on every recognizer
\* connection, whatever the order of the leave, unsubscribe, stop and
\* Disconnected handlers.
C33_FinishedAtMostOnce ==
    \A k \in 1..Len(conns) : conns[k].finished <= 1

\* C34: a startTranscription that ends in a failure leaves the session map
\* as it was, the room it created is never the meeting's registered session,
\* and a start is rejected as already active only for a meeting whose
\* registered session came from a start that succeeded.
C34_FailedStartLeavesNothing ==
    /\ [][\A c \in 1..Len(calls) :
            (/\ calls[c].kind = "start"
             /\ calls[c].pc # "done"
             /\ calls'[c].pc = "done"
             /\ calls'[c].result = "error")
            => activeSessions' = activeSessions
         ]_vars
    /\ [](\A c \in 1..Len(calls) :
            (calls[c].kind = "start" /\ calls[c].result = "error")
            => /\ activeSessions[calls[c].meetingId] # calls[c].room
               /\ ~rooms[calls[c].room].session)
    /\ [](\A c \in 1..Len(calls) :
            (calls[c].kind = "start" /\ calls[c].result = "already")
            => \E c0 \in 1..(c - 1) :
                  /\ calls[c0].kind = "start"
                  /\ calls[c0].meetingId = calls[c].meetingId
                  /\ calls[c0].result = "ok")

\* C34 happens: a start failed on room.connect and the next start of the
\* same meeting passed the guards and created its room
C34_Witness ==
    /\ Len(calls) = 2
    /\ calls[1].kind = "start" /\ calls[1].result = "error"
    /\ calls[2].kind = "start" /\ calls[2].meetingId = calls[1].meetingId
    /\ calls[2].pc # "done" \/ calls[2].result = "ok"
    /\ calls[2].room # 0

\* C35: a final transcript whose listener language list came back empty,
\* because the read failed or because the meeting has no listener, has
\* exactly one caption published, the broadcast to all with the original
\* text as translatedText, and no translateText call was made for it.
C35_NoListenersBroadcastOriginal ==
    \A e \in 1..Len(events) :
        (events[e].isFinal /\ tasks[e].pc = "done" /\ Len(tasks[e].langs) = 0) =>
        LET sent == {n \in 1..Len(pubLog) : pubLog[n].ev = e}
        IN  /\ Cardinality(sent) = 1
            /\ \A n \in sent :
                  /\ pubLog[n].to = "*"
                  /\ pubLog[n].isFinal
                  /\ pubLog[n].translatedText = events[e].text
                  /\ pubLog[n].targetLanguage = events[e].language
            /\ \A r \in trLog : r.ev # e
            /\ \A op \in touched : op[1] # e

\* C35 happens: with translation enabled and listeners stored for the
\* meeting, the read of their languages failed and the final was broadcast
C35_Witness ==
    \E e \in 1..Len(events), n \in 1..Len(pubLog) :
        /\ translation
        /\ Len(participantsDb) > 0
        /\ events[e].isFinal /\ tasks[e].pc = "done" /\ Len(tasks[e].langs) = 0
        /\ pubLog[n].ev = e /\ pubLog[n].to = "*"

\* C36: once a final transcript has been handled, every participant
\* connected to the room has been sent its caption, in a message addressed
\* to the participant or to all, whether or not the participant has a record
\* in the meeting's listener list.
C36_EveryParticipantReceives ==
    \A e \in 1..Len(events) :
        (events[e].isFinal /\ tasks[e].pc = "done") =>
        \A u \in participants :
            \E n \in 1..Len(pubLog) :
                pubLog[n].ev = e /\ pubLog[n].to \in {u, "*"}

\* C37: two translateText calls that used the same cache key were made for
\* the same text, source language and target language, and a translation
\* returned from the memory cache is a provider answer for the text and the
\* target language of the call it is returned to.
C37_KeyInjective ==
    \A r1 \in trLog :
        /\ \A r2 \in trLog :
              r1.key = r2.key =>
                 /\ events[r1.ev].text = events[r2.ev].text
                 /\ events[r1.ev].language = events[r2.ev].language
                 /\ tasks[r1.ev].langs[r1.i].language
                      = tasks[r2.ev].langs[r2.i].language
        /\ r1.how = "mem" =>
              r1.ret \in {ProviderText(events[r1.ev].text,
                                       tasks[r1.ev].langs[r1.i].language, v) :
                             v \in Variants}

\* C38: every value in the memory cache and every persisted translation is
\* an answer of the provider for the text and the target language it is
\* stored for, never the original text a failed translation falls back to;
\* so a call served from the memory cache or the database never returns the
\* fallback of an earlier failure.
C38_CacheHoldsProviderAnswers ==
    /\ \A key \in DOMAIN translationCache :
          \E e \in 1..Len(events), l \in {"ta", "hi"}, v \in Variants :
              /\ key = cacheKey(events[e].text, events[e].language, l)
              /\ translationCache[key] = ProviderText(events[e].text, l, v)
    /\ \A row \in dbTranslations :
          \E v \in Variants :
              row.translated_text
                 = ProviderText(events[row.transcript_id].text,
                                row.target_language, v)
    /\ \A r \in trLog :
          r.how \in {"mem", "db"} => r.ret # events[r.ev].text

\* C38 happens: in one fan-out the translation for the first listener failed
\* and fell back to the text, and the call for the second listener, for the
\* same key, went to the provider again and its answer is what the cache holds
C38_Witness ==
    \E r1, r2 \in trLog :
        /\ r1.ev = r2.ev /\ r1.i < r2.i /\ r1.key = r2.key
        /\ r1.how = "fail" /\ r1.ret = events[r1.ev].text
        /\ r2.how = "prov"
        /\ r2.key \in DOMAIN translationCache
        /\ translationCache[r2.key] = r2.ret

\* the level the claim has the logger configured with: LOG_LEVEL when it
\* names one of the four levels, info otherwise
Configured39 == IF LOG_LEVEL \in Levels THEN LOG_LEVEL ELSE "info"

\* the severity order of the claim: error is the most severe, debug the least
Severity39(level) ==
    IF level = "error" THEN 4
    ELSE IF level = "warn" THEN 3
    ELSE IF level = "info" THEN 2
    ELSE 1

\* C39: a call of the logger at level L writes to the console exactly when L
\* is at least as severe as the configured LOG_LEVEL; an unset or unknown
\* LOG_LEVEL counts as info, and with LOG_LEVEL=error only error is written.
C39_EmitsAtOrAboveLevel ==
    \A n \in 1..Len(logged) :
        logged[n].emitted
           <=> Severity39(logged[n].level) >= Severity39(Configured39)

====
